---- MODULE Spec2Model ----
(***************************************************************************)
(* tmux-claude: the pane status overlay of scripts/claude_tmux_hooks.py    *)
(* and the background reconciler of scripts/pane_tracker.py.               *)
(*                                                                         *)
(* A window name is a sequence of tokens.  The four status emoji of the    *)
(* source are the tokens CHECK, MEGAPHONE, QUESTION and CYCLE, a blank is  *)
(* the token " ", every other token is an ordinary character.              *)
(*                                                                         *)
(* Every hook invocation is a short-lived process: it is modelled by one   *)
(* slot whose pc walks through the external calls of the handler (tmux     *)
(* commands and state-file accesses), one action per call.  Writing and    *)
(* deleting a state file are taken to succeed; tmux commands may fail,     *)
(* may be impossible to start and may never answer, and a state file may   *)
(* hold something other than a record.                                     *)
(*                                                                         *)
(* The monitor loop of PaneTracker is modelled twice: as the one loop a    *)
(* single start_monitoring leaves (monitor), and as the threads that any   *)
(* sequence of start_monitoring and stop_monitoring leaves (thread).       *)
(***************************************************************************)
EXTENDS Integers, Sequences, FiniteSets, TLC

\* ------------------------------------------------------------ bounds
\* How many times the clock advances by one TimeStep.
MaxElapse == 3
\* How many times start_monitoring creates a thread.
MaxThreads == 2
\* How many tokens the longest window name drawn for the prefix check has.
MaxLen == 5

\* --------------------------------------------------------- constants
\* cleanup_old_states: max_age = 3600  # 1 hour
MaxAge == 3600
\* The clock advances in steps of half the staleness bound.
TimeStep == MaxAge \div 2

EmojiStop == "CHECK"
EmojiNotification == "MEGAPHONE"
EmojiPermission == "QUESTION"
EmojiBusy == "CYCLE"
\* for emoji in [...]: the fixed order of the prefix check
EmojiList == <<EmojiStop, EmojiNotification, EmojiPermission, EmojiBusy>>
Emojis == {EmojiList[k] : k \in 1..Len(EmojiList)}

Panes == {"%1", "%2"}
Windows == {"@1", "@2"}
Slots == {1, 2}
\* The threads start_monitoring can create.
Threads == 1..MaxThreads

ApplyKinds == {"stop", "notification", "pretooluse"}
RestoreKinds == {"restore", "clear_emoji_on_enter"}
Kinds == ApplyKinds \cup RestoreKinds

\* The absent record (load_pane_state returns None).
None == [absent |-> TRUE]

\* A state file whose content is not a record save_pane_state dumped:
\* "truncated" is text json.load rejects with JSONDecodeError (an empty file
\* included), "undecodable" is bytes the text layer rejects with
\* UnicodeDecodeError, "no_name" is a JSON object without 'original_name'.
DamageKinds == {"truncated", "undecodable", "no_name"}
Damaged(how, mtime) == [damaged |-> how, timestamp |-> mtime]
IsDamaged(r) == "damaged" \in DOMAIN r
IsRecord(r) == "original_name" \in DOMAIN r

\* load_pane_state: except (json.JSONDecodeError, IOError) returns None;
\* UnicodeDecodeError is neither and leaves the function.
LoadRaises(r) == IsDamaged(r) /\ r.damaged = "undecodable"
LoadMut(r) == [original_name |-> <<>>, status |-> "stop", timestamp |-> 0,
               auto_rename_was_on |-> FALSE]
Load(r) == IF IsDamaged(r) /\ r.damaged = "truncated" THEN None ELSE r

\* state['original_name'] raises KeyError on an object without that key.
LacksName(state) == state # None /\ ~IsRecord(state)

\* How an invocation ends in an exception that main() logs and raises again.
Uncaught == {"load_error", "key_error", "os_error"}

\* -------------------------------------------------- pure functions
RECURSIVE LStrip(_)
LStrip(s) == IF s # <<>> /\ Head(s) = " " THEN LStrip(Tail(s)) ELSE s

RECURSIVE RStrip(_)
RStrip(s) ==
    IF s # <<>> /\ s[Len(s)] = " " THEN RStrip(SubSeq(s, 1, Len(s) - 1)) ELSE s

\* str.strip() of the command's output
Strip(s) == RStrip(LStrip(s))

\* original_name.startswith(emoji + ' ')
StartsWith(name, emoji) ==
    Len(name) >= 2 /\ name[1] = emoji /\ name[2] = " "

RECURSIVE RemoveEveryEmojiPrefixMut(_, _)
RemoveEveryEmojiPrefixMut(name, k) ==
    IF k > Len(EmojiList) THEN name
    ELSE IF StartsWith(name, EmojiList[k])
         THEN RemoveEveryEmojiPrefixMut(SubSeq(name, 3, Len(name)), 1)
    ELSE RemoveEveryEmojiPrefixMut(name, k + 1)

\* The for loop with break: the first emoji of EmojiList that prefixes the
\* name is cut off, once.
RECURSIVE RemoveEmojiPrefixFrom(_, _)
RemoveEmojiPrefixFrom(name, k) ==
    IF k > Len(EmojiList) THEN name
    ELSE IF StartsWith(name, EmojiList[k]) THEN SubSeq(name, 3, Len(name))
    ELSE RemoveEmojiPrefixFrom(name, k + 1)

RemoveEmojiPrefixMut(name) == name
RemoveEmojiPrefix(name) == RemoveEmojiPrefixFrom(name, 1)

\* The emoji each apply handler prepends and the status it saves.
EmojiOf(kind) ==
    CASE kind = "stop" -> EmojiStop
      [] kind = "notification" -> EmojiNotification
      [] kind = "pretooluse" -> EmojiPermission

StatusOfMut(kind) == "stop"
StatusOf(kind) ==
    CASE kind = "stop" -> "stop"
      [] kind = "notification" -> "notification"
      [] kind = "pretooluse" -> "permission"

NewNameMut(kind, original_name) == <<EmojiOf(kind)>> \o original_name

\* new_name = f"<emoji> {original_name}"
NewName(kind, original_name) == <<EmojiOf(kind), " ">> \o original_name

\* original_name as the handlers choose it: the saved one when a state was
\* loaded, else the current name without its emoji prefix.
OriginalNameMut(state, current_name) ==
    IF state # None THEN state.original_name ELSE <<"a">>
OriginalName(state, current_name) ==
    IF state # None THEN state.original_name
    ELSE RemoveEmojiPrefix(current_name)

\* ------------------------------------------------------------ state
VARIABLES
    window,        \* pane id -> the window that holds the pane
    winName,       \* window -> its name (#{window_name})
    autoRename,    \* window -> its automatic-rename option
    live,          \* the panes tmux still has
    overlayShown,  \* window -> its name was last set by an apply handler
    trueName,      \* window -> the name its user gave it last
    store,         \* pane id -> the content of .pane_state_<id>.json, or None
    now,           \* time.time()
    tracked,       \* the keys of .pane_tracker.json
    monitor,       \* where the monitor loop of PaneTracker stands
    evicted,       \* the panes whose state file the last cleanup_old_states removed
    pc,            \* slot -> the call the invocation makes next
    kind,          \* slot -> the command line action
    pane,          \* slot -> pane_id
    current_name,  \* slot -> current_name
    state,         \* slot -> state, as loaded
    auto_rename_was_on, \* slot -> the local of save_pane_state
    rename_result, \* slot -> how its rename-window command ended, if made
    before,        \* slot -> what the invocation found when it started
    calls,         \* slot -> the calls the invocation made, with their answers
    tracing,       \* whether the calls of an invocation are recorded
    observing,     \* whether completed invocations are recorded
    prev,          \* the completed invocation before the last one, or None
    last,          \* the last completed invocation, or None
    running,       \* self.running of the PaneTracker
    monitor_thread, \* self.monitor_thread: the thread started last, 0 for None
    thread,        \* thread -> where its _monitor_loop stands
    tracker,       \* tracker process -> its call and its tracked_panes
    expected       \* the panes added last and neither removed nor found dead

vars == <<window, winName, autoRename, live, overlayShown, trueName, store, now,
          tracked, monitor, evicted, pc, kind, pane, current_name, state, auto_rename_was_on,
          rename_result, before, calls, tracing, observing, prev, last, running,
          monitor_thread,
          thread>>

tmuxVars == <<window, winName, autoRename, live, overlayShown, trueName>>
slotVars == <<pc, kind, pane, current_name, state, auto_rename_was_on,
              rename_result, before, calls>>
hist == <<observing, tracing, prev, last, evicted>>
threadVars == <<running, monitor_thread, thread>>
trackerVars == <<tracker, expected>>

\* The pane_tracker.py processes that may run side by side: one for each
\* pane's add and remove commands, and one that sweeps dead panes.
TrackerProcs == {1, 2, 3}
TrackerPane(t) == IF t = 2 THEN "%2" ELSE "%1"
TrackerOps(t) ==
    IF t = 3 THEN {"cleanup_dead_panes"}
    ELSE {"add_tracked_pane", "remove_tracked_pane"}

\* A tracker process that is not running.
TrackerIdle ==
    [pc |-> "idle", op |-> "none", pane_id |-> "%1", tracked_panes |-> {}]

\* ------------------------------------------------------- observer
\* What an invocation on pane p can observe of the pane and the store.
Snapshot(p) ==
    IF observing
    THEN [name |-> winName[window[p]], auto |-> autoRename[window[p]],
          store |-> store]
    ELSE None

SnapshotAfter(p) ==
    [name |-> winName'[window[p]], auto |-> autoRename'[window[p]],
     store |-> store']

\* The call slot i is at joins the calls of its invocation, with the answer
\* the call got where it can get more than one.
Called(i, answer) ==
    calls' = IF tracing THEN [calls EXCEPT ![i] = Append(@, <<pc[i]>> \o answer)]
             ELSE calls

\* The invocation of slot i ends with this step: the process exits, its
\* locals are gone, and the observer records what it did.
FinishAnswered(i, result, answer) ==
    /\ pc' = [pc EXCEPT ![i] = "idle"]
    /\ calls' = [calls EXCEPT ![i] = <<>>]
    /\ kind' = [kind EXCEPT ![i] = "stop"]
    /\ pane' = [pane EXCEPT ![i] = "%1"]
    /\ current_name' = [current_name EXCEPT ![i] = <<>>]
    /\ state' = [state EXCEPT ![i] = None]
    /\ auto_rename_was_on' = [auto_rename_was_on EXCEPT ![i] = FALSE]
    /\ before' = [before EXCEPT ![i] = None]
    /\ rename_result' = [rename_result EXCEPT ![i] = "none"]
    /\ UNCHANGED <<observing, tracing, evicted>>
    /\ IF observing
       THEN /\ prev' = last
            /\ last' = [kind |-> kind[i], pane |-> pane[i], result |-> result,
                        rename |-> IF result \in {"set_failed", "restore_failed"}
                                   THEN "failed" ELSE rename_result[i],
                        before |-> before[i], after |-> SnapshotAfter(pane[i]),
                        calls |-> IF tracing
                                  THEN Append(calls[i], <<pc[i]>> \o answer)
                                  ELSE <<>>]
       ELSE UNCHANGED <<prev, last>>

Finish(i, result) == FinishAnswered(i, result, <<>>)

\* The invocation of slot i goes on with the call named next.
GotoAnswered(i, next, answer) ==
    /\ pc' = [pc EXCEPT ![i] = next]
    /\ Called(i, answer)
    /\ UNCHANGED <<kind, pane, before, rename_result, hist>>

Goto(i, next) == GotoAnswered(i, next, <<>>)

\* The same, after its rename-window command ended with ok.
GotoRenamed(i, next, ok) ==
    /\ pc' = [pc EXCEPT ![i] = next]
    /\ rename_result' = [rename_result EXCEPT ![i] = IF ok THEN "ok" ELSE "failed"]
    /\ Called(i, <<ok>>)
    /\ UNCHANGED <<kind, pane, before, hist, current_name, state,
                   auto_rename_was_on>>

\* ---------------------------------------------------------- names
\* The names a window starts with: plain, padded with a blank, carrying one
\* emoji, carrying two stacked emoji, and empty.
InitNames ==
    { <<"a">>, <<" ", "a">>, <<EmojiStop, " ", "a">>,
      <<EmojiStop, " ", EmojiNotification, " ", "a">>, <<>> }

\* Every name of at most n tokens made of the four emoji, the blank and an
\* ordinary character.
Tokens == Emojis \cup {" ", "a"}
NamesUpTo(n) == UNION {[1..k -> Tokens] : k \in 0..n}

\* Each pane in a window of its own, or both panes in one window.
SeparateWindows == [p \in Panes |-> IF p = "%1" THEN "@1" ELSE "@2"]
SharedWindow == [p \in Panes |-> "@1"]
Layouts == {SeparateWindows, SharedWindow}

\* The state after tmux and the scripts are set up: no state file, no
\* invocation running, the monitor loop asleep.
InitTraced(obs, trc, layouts, names, others, autos) ==
    /\ window \in layouts
    /\ \E n \in names, o \in others :
         winName = [w \in Windows |-> IF w = "@1" THEN n ELSE o]
    /\ \E b \in autos : autoRename = [w \in Windows |-> b]
    /\ live = Panes
    /\ overlayShown = [w \in Windows |-> FALSE]
    /\ trueName = winName
    /\ store = [p \in Panes |-> None]
    /\ now = 0
    /\ tracked = {}
    /\ monitor = "sleep"
    /\ evicted = {}
    /\ pc = [i \in Slots |-> "idle"]
    /\ kind = [i \in Slots |-> "stop"]
    /\ pane = [i \in Slots |-> "%1"]
    /\ current_name = [i \in Slots |-> <<>>]
    /\ state = [i \in Slots |-> None]
    /\ auto_rename_was_on = [i \in Slots |-> FALSE]
    /\ rename_result = [i \in Slots |-> "none"]
    /\ before = [i \in Slots |-> None]
    /\ calls = [i \in Slots |-> <<>>]
    /\ tracing = trc
    /\ observing = obs
    /\ prev = None
    /\ last = None
    /\ running = FALSE
    /\ monitor_thread = 0
    /\ thread = [t \in Threads |-> "unstarted"]
    /\ tracker = [t \in TrackerProcs |-> TrackerIdle]
    /\ expected = {}

\* The same with the second window named b and no calls recorded.
InitWith(obs, layouts, names, autos) ==
    InitTraced(obs, FALSE, layouts, names, {<<"b">>}, autos)

\* A tmux command aimed at pane p answers or fails (CalledProcessError); it
\* always fails once the pane is gone.
Outcomes(p) == IF p \in live THEN {TRUE, FALSE} ELSE {FALSE}

\* ------------------------------------------------- hook invocations
\* main(): the action named on the command line starts.
FirstCall(k) ==
    CASE k = "pretooluse" -> "is_waiting_for_permission"
      [] k \in {"stop", "notification"} -> "get_claude_pane_id"
      [] k = "restore" -> "load_pane_state"
      [] k = "clear_emoji_on_enter" -> "get_current_tmux_pane"

Start(i, k, p) ==
    /\ pc[i] = "idle"
    /\ pc' = [pc EXCEPT ![i] = FirstCall(k)]
    /\ kind' = [kind EXCEPT ![i] = k]
    /\ pane' = [pane EXCEPT ![i] = p]
    /\ before' = [before EXCEPT ![i] = Snapshot(p)]
    /\ calls' = [calls EXCEPT ![i] = <<>>]
    /\ UNCHANGED <<tmuxVars, store, now, tracked, monitor, threadVars, trackerVars,
                   current_name, state,
                   auto_rename_was_on, rename_result, hist>>

\* handle_pretooluse_hook: if not is_waiting_for_permission(): return
IsWaitingForPermission(i) ==
    /\ pc[i] = "is_waiting_for_permission"
    /\ UNCHANGED <<tmuxVars, store, now, tracked, monitor, threadVars, trackerVars>>
    /\ \E waiting \in BOOLEAN :
         IF waiting
         THEN Goto(i, "get_claude_pane_id")
              /\ UNCHANGED <<current_name, state, auto_rename_was_on>>
         ELSE Finish(i, "skipped")

\* pane_id = get_claude_pane_id(); if not pane_id: return
GetClaudePaneId(i) ==
    /\ pc[i] = "get_claude_pane_id"
    /\ UNCHANGED <<tmuxVars, store, now, tracked, monitor, threadVars, trackerVars>>
    /\ \E found \in BOOLEAN :
         IF found
         THEN GotoAnswered(i, "get_pane_name", <<found>>)
              /\ UNCHANGED <<current_name, state, auto_rename_was_on>>
         ELSE FinishAnswered(i, "no_pane_id", <<found>>)

GetPaneNameMut(i) ==
    /\ pc[i] = "get_pane_name"
    /\ autoRename' = [autoRename EXCEPT ![window[pane[i]]] = FALSE]
    /\ UNCHANGED <<window, winName, live, overlayShown, trueName, store, now,
                   tracked, monitor, threadVars, trackerVars>>
    /\ Finish(i, "no_name")

\* current_name = get_pane_name(pane_id); if not current_name: return
GetPaneName(i) ==
    /\ pc[i] = "get_pane_name"
    /\ UNCHANGED <<tmuxVars, store, now, tracked, monitor, threadVars, trackerVars>>
    /\ \E ok \in Outcomes(pane[i]) :
         LET name == IF ok THEN Strip(winName[window[pane[i]]]) ELSE <<>>
         IN  IF name # <<>>
             THEN /\ GotoAnswered(i, "load_pane_state", <<ok>>)
                  /\ current_name' = [current_name EXCEPT ![i] = name]
                  /\ UNCHANGED <<state, auto_rename_was_on>>
             ELSE FinishAnswered(i, "no_name", <<ok>>)

\* state = load_pane_state(pane_id), in an apply handler; if state:
\* original_name = state['original_name']
LoadPaneState(i) ==
    /\ pc[i] = "load_pane_state"
    /\ kind[i] \in ApplyKinds
    /\ UNCHANGED <<tmuxVars, store, now, tracked, monitor, threadVars, trackerVars>>
    /\ IF LoadRaises(store[pane[i]]) THEN Finish(i, "load_error")
       ELSE IF LacksName(Load(store[pane[i]])) THEN Finish(i, "key_error")
       ELSE /\ state' = [state EXCEPT ![i] = Load(store[pane[i]])]
            /\ Goto(i, "set_window_auto_rename")
            /\ UNCHANGED <<current_name, auto_rename_was_on>>

\* set_pane_name: set_window_auto_rename(pane_id, False), its result unused
SetPaneNameAutoRename(i) ==
    /\ pc[i] = "set_window_auto_rename"
    /\ kind[i] \in ApplyKinds
    /\ \E ok \in Outcomes(pane[i]) :
         /\ autoRename' = IF ok THEN [autoRename EXCEPT ![window[pane[i]]] = FALSE]
                          ELSE autoRename
         /\ GotoAnswered(i, "rename_window", <<ok>>)
    /\ UNCHANGED <<window, winName, live, overlayShown, trueName, store, now, tracked,
                   monitor, threadVars, trackerVars, current_name, state, auto_rename_was_on>>

AfterSetPaneNameKindMut(i, ok) ==
    IF ok \/ kind[i] = "pretooluse"
    THEN GotoRenamed(i, "get_window_auto_rename_status", ok)
    ELSE FinishAnswered(i, "set_failed", <<ok>>)

\* if set_pane_name(pane_id, new_name): save_pane_state(...) else: log the
\* failure and return
AfterSetPaneNameMut(i, ok) == GotoRenamed(i, "get_window_auto_rename_status", ok)
AfterSetPaneName(i, ok) ==
    IF ok THEN GotoRenamed(i, "get_window_auto_rename_status", ok)
    ELSE FinishAnswered(i, "set_failed", <<ok>>)

\* set_pane_name: tmux rename-window -t pane_id new_name
SetPaneNameRename(i) ==
    /\ pc[i] = "rename_window"
    /\ kind[i] \in ApplyKinds
    /\ UNCHANGED <<window, autoRename, live, trueName, store, now, tracked, monitor,
                   threadVars, trackerVars>>
    /\ \E ok \in Outcomes(pane[i]) :
         /\ winName' = IF ok THEN [winName EXCEPT ![window[pane[i]]] =
                          NewName(kind[i], OriginalName(state[i], current_name[i]))]
                       ELSE winName
         /\ overlayShown' = IF ok THEN [overlayShown EXCEPT ![window[pane[i]]] = TRUE]
                            ELSE overlayShown
         /\ AfterSetPaneName(i, ok)

\* save_pane_state: auto_rename_was_on = get_window_auto_rename_status(pane_id),
\* False when the command fails
SaveGetAutoRename(i) ==
    /\ pc[i] = "get_window_auto_rename_status"
    /\ \E ok \in Outcomes(pane[i]) :
         /\ auto_rename_was_on' =
                [auto_rename_was_on EXCEPT ![i] = ok /\ autoRename[window[pane[i]]]]
         /\ GotoAnswered(i, "open_state_file", <<ok>>)
    /\ UNCHANGED <<tmuxVars, store, now, tracked, monitor, threadVars, trackerVars,
                   current_name, state>>

SavedStateMut(i) ==
    [original_name |-> OriginalName(state[i], current_name[i]),
     status |-> IF state[i] # None THEN state[i].status ELSE StatusOf(kind[i]),
     timestamp |-> now,
     auto_rename_was_on |-> auto_rename_was_on[i]]

\* The record save_pane_state dumps.
SavedState(i) ==
    [original_name |-> OriginalName(state[i], current_name[i]),
     status |-> StatusOf(kind[i]),
     timestamp |-> now,
     auto_rename_was_on |-> auto_rename_was_on[i]]

\* save_pane_state: open(state_file, 'w') leaves the file empty until the
\* dump is flushed
OpenStateFile(i) ==
    /\ pc[i] = "open_state_file"
    /\ store' = [store EXCEPT ![pane[i]] = Damaged("truncated", now)]
    /\ Goto(i, "save_pane_state")
    /\ UNCHANGED <<tmuxVars, now, tracked, monitor, threadVars, trackerVars,
                   current_name, state,
                   auto_rename_was_on>>

\* save_pane_state: json.dump(state, f); the handler then logs and returns.
\* When the file was unlinked since it was opened, the dump goes to a file
\* that has no name any more and the directory stays without a state file.
SavePaneState(i) ==
    /\ pc[i] = "save_pane_state"
    /\ UNCHANGED <<tmuxVars, now, tracked, monitor, threadVars, trackerVars>>
    /\ store' = IF store[pane[i]] = None THEN store
                ELSE [store EXCEPT ![pane[i]] = SavedState(i)]
    /\ Finish(i, "ok")

\* clear_emoji_on_enter: pane_id = get_current_tmux_pane(); state =
\* load_pane_state(pane_id); restore_pane_name only if there is a state
ClearEmojiOnEnter(i) ==
    /\ pc[i] = "get_current_tmux_pane"
    /\ UNCHANGED <<tmuxVars, store, now, tracked, monitor, threadVars, trackerVars>>
    /\ \E found \in BOOLEAN :
         IF ~found THEN Finish(i, "no_pane_id")
         ELSE IF LoadRaises(store[pane[i]]) THEN Finish(i, "load_error")
         ELSE IF Load(store[pane[i]]) = None THEN Finish(i, "no_state")
         ELSE Goto(i, "load_pane_state")
              /\ UNCHANGED <<current_name, state, auto_rename_was_on>>

\* restore_pane_name: state = load_pane_state(pane_id); if not state: return
\* False; else original_name = state['original_name']
RestoreLoad(i) ==
    /\ pc[i] = "load_pane_state"
    /\ kind[i] \in RestoreKinds
    /\ UNCHANGED <<tmuxVars, store, now, tracked, monitor, threadVars, trackerVars>>
    /\ IF LoadRaises(store[pane[i]]) THEN Finish(i, "load_error")
       ELSE IF Load(store[pane[i]]) = None THEN Finish(i, "no_state")
       ELSE IF LacksName(Load(store[pane[i]])) THEN Finish(i, "key_error")
       ELSE /\ state' = [state EXCEPT ![i] = Load(store[pane[i]])]
            /\ Goto(i, "restore_rename_window")
            /\ UNCHANGED <<current_name, auto_rename_was_on>>

\* restore_pane_name: the except branch returns False before the
\* automatic-rename option and the state file are touched
AfterRestoreRenameMut(i, ok) == GotoRenamed(i, "restore_auto_rename", ok)
AfterRestoreRename(i, ok) ==
    IF ok THEN GotoRenamed(i, "restore_auto_rename", ok)
    ELSE Finish(i, "restore_failed")

\* restore_pane_name: tmux rename-window -t pane_id original_name
RestoreRename(i) ==
    /\ pc[i] = "restore_rename_window"
    /\ UNCHANGED <<window, autoRename, live, trueName, store, now, tracked, monitor,
                   threadVars, trackerVars>>
    /\ \E ok \in Outcomes(pane[i]) :
         /\ winName' = IF ok THEN [winName EXCEPT ![window[pane[i]]] =
                                      state[i].original_name]
                       ELSE winName
         /\ overlayShown' = IF ok THEN [overlayShown EXCEPT ![window[pane[i]]] = FALSE]
                            ELSE overlayShown
         /\ AfterRestoreRename(i, ok)

\* restore_pane_name: set_window_auto_rename(pane_id, auto_rename_was_on); a
\* failure is only not logged as restored
RestoreAutoRename(i) ==
    /\ pc[i] = "restore_auto_rename"
    /\ \E ok \in Outcomes(pane[i]) :
         autoRename' = IF ok THEN [autoRename EXCEPT ![window[pane[i]]] =
                                       state[i].auto_rename_was_on]
                       ELSE autoRename
    /\ Goto(i, "cleanup_pane_state")
    /\ UNCHANGED <<window, winName, live, overlayShown, trueName, store, now, tracked,
                   monitor, threadVars, trackerVars, current_name, state, auto_rename_was_on>>

\* cleanup_pane_state: state_file.unlink()
UnlinkMut(p) == store
Unlink(p) == [store EXCEPT ![p] = None]

\* restore_pane_name: cleanup_pane_state(pane_id); return True
CleanupPaneState(i) ==
    /\ pc[i] = "cleanup_pane_state"
    /\ UNCHANGED <<tmuxVars, now, tracked, monitor, threadVars, trackerVars>>
    /\ store' = Unlink(pane[i])
    /\ Finish(i, "ok")

\* One call of an apply handler once it knows it has to act.
ApplyStep(i) ==
    \/ GetClaudePaneId(i)
    \/ GetPaneName(i)
    \/ LoadPaneState(i)
    \/ SetPaneNameAutoRename(i)
    \/ SetPaneNameRename(i)
    \/ SaveGetAutoRename(i)
    \/ OpenStateFile(i)
    \/ SavePaneState(i)

\* One call of restore_pane_name.
RestoreStep(i) ==
    \/ RestoreLoad(i)
    \/ RestoreRename(i)
    \/ RestoreAutoRename(i)
    \/ CleanupPaneState(i)

\* One call of the invocation in slot i.
Step(i) ==
    \/ IsWaitingForPermission(i)
    \/ ApplyStep(i)
    \/ ClearEmojiOnEnter(i)
    \/ RestoreStep(i)

\* No hook invocation is in progress.
Quiescent == \A i \in Slots : pc[i] = "idle"

\* ------------------------------------------------------ environment
\* A pane exits.
KillPane(p) ==
    /\ p \in live
    /\ live' = live \ {p}
    /\ UNCHANGED <<window, winName, autoRename, overlayShown, trueName, store, now,
                   tracked, monitor, threadVars, trackerVars, slotVars, hist>>

\* The content of a state file is damaged behind the scripts' back.
DamageRecord(p, how) ==
    /\ IsRecord(store[p])
    /\ store' = [store EXCEPT ![p] = Damaged(how, now)]
    /\ UNCHANGED <<tmuxVars, now, tracked, monitor, threadVars, trackerVars, slotVars, hist>>

\* The calls that run a tmux command with subprocess.run.
TmuxCalls ==
    {"get_current_tmux_pane", "get_pane_name", "set_window_auto_rename",
     "rename_window", "get_window_auto_rename_status", "restore_rename_window",
     "restore_auto_rename"}

\* subprocess.run cannot start tmux: FileNotFoundError, which no except
\* clause of the handlers names; main() logs it and raises it again.
TmuxCannotStart(i) ==
    /\ pc[i] \in TmuxCalls
    /\ UNCHANGED <<tmuxVars, store, now, tracked, monitor, threadVars, trackerVars>>
    /\ Finish(i, "os_error")

\* subprocess.run is called without timeout=: when tmux never answers, the
\* call never returns and the invocation stays in it.
TmuxHangs(i) ==
    /\ pc[i] \in TmuxCalls
    /\ Goto(i, "blocked")
    /\ UNCHANGED <<tmuxVars, store, now, tracked, monitor, threadVars, trackerVars,
                   current_name, state,
                   auto_rename_was_on>>

\* The names a user gives a window by hand.
RenameNames == {<<"x">>}

\* The user renames window w, as tmux rename-window does.
ExternalRename(w, n) ==
    /\ winName[w] # n
    /\ winName' = [winName EXCEPT ![w] = n]
    /\ trueName' = [trueName EXCEPT ![w] = n]
    /\ overlayShown' = [overlayShown EXCEPT ![w] = FALSE]
    /\ UNCHANGED <<window, autoRename, live, store, now, tracked, monitor,
                   threadVars, trackerVars, slotVars, hist>>

\* Time passes.
Elapse ==
    /\ now < MaxElapse * TimeStep
    /\ now' = now + TimeStep
    /\ UNCHANGED <<tmuxVars, store, tracked, monitor, threadVars, trackerVars, slotVars, hist>>

\* ------------------------------------------------------ pane tracker
\* pane_tracker.py add <pane_id> <session_name>
AddTrackedPane(p) ==
    /\ p \notin tracked
    /\ tracked' = tracked \cup {p}
    /\ UNCHANGED <<tmuxVars, store, now, monitor, threadVars, trackerVars, slotVars, hist>>

\* pane_tracker.py remove <pane_id>
RemoveTrackedPane(p) ==
    /\ p \in tracked
    /\ tracked' = tracked \ {p}
    /\ UNCHANGED <<tmuxVars, store, now, monitor, threadVars, trackerVars, slotVars, hist>>

\* '#{session_name}:#{window_index}.#{pane_index}:#{pane_id}:...' split at ':'
\* has the session name as parts[0] and this as parts[1].
WindowPaneIndex(p) ==
    IF p = "%1" THEN "0.0" ELSE IF window[p] = "@1" THEN "0.1" ELSE "1.0"

\* The 'pane_id' entries of get_all_panes(): parts[1] of every line tmux
\* prints; nothing when the command fails.
GetAllPanes(ok) == IF ok THEN {WindowPaneIndex(p) : p \in live} ELSE {}

\* cleanup_dead_panes: the tracked panes that are not in current_panes
DeadPanesOf(tracked_panes, current_panes) ==
    {p \in tracked_panes : p \notin current_panes}
DeadPanes(current_panes) == DeadPanesOf(tracked, current_panes)

\* tracked_panes = self.load_tracked_panes(), the first statement of
\* add_tracked_pane, remove_tracked_pane and cleanup_dead_panes
LoadTrackedPanes(t, op) ==
    /\ tracker[t].pc = "idle"
    /\ tracker' = [tracker EXCEPT ![t] =
                      [pc |-> "save_tracked_panes", op |-> op,
                       pane_id |-> TrackerPane(t), tracked_panes |-> tracked]]
    /\ UNCHANGED <<tmuxVars, store, now, tracked, monitor, threadVars, slotVars,
                   hist, expected>>

\* add_tracked_pane: tracked_panes[pane_id] = {...};
\* self.save_tracked_panes(tracked_panes)
SaveAddedPane(t) ==
    /\ tracker[t].pc = "save_tracked_panes"
    /\ tracker[t].op = "add_tracked_pane"
    /\ tracked' = tracker[t].tracked_panes \cup {tracker[t].pane_id}
    /\ expected' = expected \cup {tracker[t].pane_id}
    /\ tracker' = [tracker EXCEPT ![t] = TrackerIdle]
    /\ UNCHANGED <<tmuxVars, store, now, monitor, threadVars, slotVars, hist>>

\* remove_tracked_pane: if pane_id in tracked_panes: del
\* tracked_panes[pane_id]; self.save_tracked_panes(tracked_panes)
SaveRemovedPane(t) ==
    /\ tracker[t].pc = "save_tracked_panes"
    /\ tracker[t].op = "remove_tracked_pane"
    /\ tracked' = IF tracker[t].pane_id \in tracker[t].tracked_panes
                  THEN tracker[t].tracked_panes \ {tracker[t].pane_id}
                  ELSE tracked
    /\ expected' = expected \ {tracker[t].pane_id}
    /\ tracker' = [tracker EXCEPT ![t] = TrackerIdle]
    /\ UNCHANGED <<tmuxVars, store, now, monitor, threadVars, slotVars, hist>>

\* cleanup_dead_panes after its load: current_panes, dead_panes, and if
\* dead_panes: the deletions, the unlinks and save_tracked_panes.  When tmux
\* cannot be started the process ends with the exception.
SaveWithoutDeadPanes(t) ==
    /\ tracker[t].pc = "save_tracked_panes"
    /\ tracker[t].op = "cleanup_dead_panes"
    /\ \E outcome \in {"ok", "fail", "raise"} :
         LET dead_panes == IF outcome = "raise" THEN {}
                           ELSE DeadPanesOf(tracker[t].tracked_panes,
                                            GetAllPanes(outcome = "ok"))
         IN  /\ tracked' = IF dead_panes # {}
                           THEN tracker[t].tracked_panes \ dead_panes
                           ELSE tracked
             /\ store' = [p \in Panes |->
                            IF p \in dead_panes THEN None ELSE store[p]]
             /\ expected' = expected \ dead_panes
    /\ tracker' = [tracker EXCEPT ![t] = TrackerIdle]
    /\ UNCHANGED <<tmuxVars, now, monitor, threadVars, slotVars, hist>>

\* _monitor_loop: time.sleep(30) is over and self.running holds
MonitorSleep ==
    /\ monitor = "sleep"
    /\ monitor' = "cleanup_dead_panes"
    /\ UNCHANGED <<tmuxVars, store, now, tracked, slotVars, hist, threadVars, trackerVars>>

\* _monitor_loop: self.cleanup_dead_panes().  An exception (tmux cannot be
\* started) is swallowed by the loop, which starts over without
\* cleanup_old_states and without sleeping.
CleanupDeadPanesWith(outcome) ==
    /\ monitor = "cleanup_dead_panes"
    /\ IF outcome = "raise"
       THEN UNCHANGED <<store, tracked, monitor>>
       ELSE LET dead_panes == DeadPanes(GetAllPanes(outcome = "ok"))
            IN  /\ tracked' = tracked \ dead_panes
                /\ store' = [p \in Panes |->
                               IF p \in dead_panes THEN None ELSE store[p]]
                /\ monitor' = "cleanup_old_states"
    /\ UNCHANGED <<tmuxVars, now, slotVars, hist, threadVars, trackerVars>>

\* The list-panes command of the round answers ("ok"), fails with
\* CalledProcessError ("fail") or cannot be started ("raise").
CleanupDeadPanes ==
    \E outcome \in {"ok", "fail", "raise"} : CleanupDeadPanesWith(outcome)

\* if current_time - state_file.stat().st_mtime > max_age
IsOldMut(timestamp) == now - timestamp >= MaxAge
IsOld(timestamp) == now - timestamp > MaxAge

\* _monitor_loop: self.cleanup_old_states()
CleanupOldStates ==
    /\ monitor = "cleanup_old_states"
    /\ store' = [p \in Panes |->
                   IF store[p] # None /\ IsOld(store[p].timestamp)
                   THEN None ELSE store[p]]
    /\ evicted' = {p \in Panes : store[p] # None /\ store'[p] = None}
    /\ monitor' = "sleep"
    /\ UNCHANGED <<tmuxVars, now, tracked, slotVars, observing, tracing, prev,
                   last, threadVars, trackerVars>>

\* ---------------------------------------------- monitor threads
\* start_monitoring: if self.running: return; self.running = True; a new
\* thread runs _monitor_loop and becomes self.monitor_thread
StartMonitoring ==
    /\ ~running
    /\ \E t \in Threads :
         /\ thread[t] = "unstarted"
         /\ \A u \in Threads : u < t => thread[u] # "unstarted"
         /\ thread' = [thread EXCEPT ![t] = "while"]
         /\ monitor_thread' = t
    /\ running' = TRUE
    /\ UNCHANGED <<tmuxVars, store, now, tracked, monitor, slotVars, trackerVars, hist>>

\* stop_monitoring: self.running = False; join(timeout=5) returns once the
\* thread has ended or after five seconds, whichever comes first, so the
\* caller goes on while the thread may still be in its time.sleep(30)
StopMonitoring ==
    /\ running
    /\ running' = FALSE
    /\ UNCHANGED <<tmuxVars, store, now, tracked, monitor, slotVars, trackerVars, hist,
                   monitor_thread, thread, tracker, expected>>

ThreadWhileMut(t) ==
    /\ thread[t] = "while"
    /\ thread' = [thread EXCEPT ![t] = "cleanup_dead_panes"]
    /\ UNCHANGED <<tmuxVars, store, now, tracked, monitor, slotVars, trackerVars, hist,
                   running, monitor_thread>>

\* _monitor_loop: while self.running
ThreadWhile(t) ==
    /\ thread[t] = "while"
    /\ thread' = [thread EXCEPT ![t] = IF running THEN "cleanup_dead_panes"
                                       ELSE "done"]
    /\ UNCHANGED <<tmuxVars, store, now, tracked, monitor, slotVars, trackerVars, hist,
                   running, monitor_thread>>

\* _monitor_loop: self.cleanup_dead_panes(); except Exception: pass leads
\* back to the while test, past cleanup_old_states and time.sleep(30)
ThreadCleanupDeadPanes(t) ==
    /\ thread[t] = "cleanup_dead_panes"
    /\ \E outcome \in {"ok", "fail", "raise"} :
         IF outcome = "raise"
         THEN /\ thread' = [thread EXCEPT ![t] = "while"]
              /\ UNCHANGED <<store, tracked>>
         ELSE LET dead_panes == DeadPanes(GetAllPanes(outcome = "ok"))
              IN  /\ tracked' = tracked \ dead_panes
                  /\ store' = [p \in Panes |->
                                 IF p \in dead_panes THEN None ELSE store[p]]
                  /\ thread' = [thread EXCEPT ![t] = "cleanup_old_states"]
    /\ UNCHANGED <<tmuxVars, now, monitor, slotVars, trackerVars, hist, running,
                   monitor_thread>>

\* _monitor_loop: self.cleanup_old_states()
ThreadCleanupOldStates(t) ==
    /\ thread[t] = "cleanup_old_states"
    /\ store' = [p \in Panes |->
                   IF store[p] # None /\ IsOld(store[p].timestamp)
                   THEN None ELSE store[p]]
    /\ evicted' = {p \in Panes : store[p] # None /\ store'[p] = None}
    /\ thread' = [thread EXCEPT ![t] = "sleep"]
    /\ UNCHANGED <<tmuxVars, now, tracked, monitor, slotVars, trackerVars, observing, tracing,
                   prev, last, running, monitor_thread>>

\* _monitor_loop: time.sleep(30) is over
ThreadSleep(t) ==
    /\ thread[t] = "sleep"
    /\ thread' = [thread EXCEPT ![t] = "while"]
    /\ UNCHANGED <<tmuxVars, store, now, tracked, monitor, slotVars, trackerVars, hist,
                   running, monitor_thread>>

\* ---------------------------------------------------- specifications
\* The dispatcher: hook invocations for the pane Claude runs in, one after
\* the other, each running to its end, and each recorded by the observer.
Init == InitWith(TRUE, {SeparateWindows}, InitNames, BOOLEAN)

Next ==
    \/ \E k \in Kinds : Quiescent /\ Start(1, k, "%1")
    \/ Step(1)

Spec == Init /\ [][Next]_vars

\* The monitor loop beside the dispatcher: hook invocations for either
\* pane, one after the other, while panes exit, time passes, panes are
\* added to and removed from the tracker file and the loop makes its rounds.
InitMonitor == InitWith(FALSE, Layouts, {<<"a">>}, {FALSE})

NextMonitor ==
    \/ \E k \in {"stop", "restore"}, p \in Panes : Quiescent /\ Start(1, k, p)
    \/ ApplyStep(1)
    \/ RestoreStep(1)
    \/ \E p \in Panes : Quiescent /\ KillPane(p)
    \/ Quiescent /\ Elapse
    \/ \E p \in Panes : Quiescent /\ AddTrackedPane(p)
    \/ \E p \in Panes : Quiescent /\ RemoveTrackedPane(p)
    \/ Quiescent /\ MonitorSleep
    \/ Quiescent /\ CleanupDeadPanes
    \/ Quiescent /\ CleanupOldStates

SpecMonitor == InitMonitor /\ [][NextMonitor]_vars

\* The dispatcher beside failures of its surroundings: state files get
\* damaged between invocations and tmux may be impossible to start.
InitFaults == InitWith(TRUE, {SeparateWindows}, {<<"a">>}, {TRUE})

NextFaults ==
    \/ \E k \in {"stop"} \cup RestoreKinds : Quiescent /\ Start(1, k, "%1")
    \/ ApplyStep(1)
    \/ ClearEmojiOnEnter(1)
    \/ RestoreStep(1)
    \/ \E how \in DamageKinds : Quiescent /\ DamageRecord("%1", how)
    \/ TmuxCannotStart(1)

SpecFaults == InitFaults /\ [][NextFaults]_vars

\* The dispatcher beside a tmux server that may stop answering.  A hook
\* process that can take a step takes it in the end; Step(1) is a step of
\* the process, TmuxHangs(1) is a choice of its surroundings.
InitHang == InitWith(FALSE, {SeparateWindows}, {<<"a">>}, BOOLEAN)

NextHang ==
    \/ \E k \in Kinds : Quiescent /\ Start(1, k, "%1")
    \/ Step(1)
    \/ TmuxHangs(1)

SpecHang == InitHang /\ [][NextHang]_vars /\ WF_vars(Step(1))

\* The tracker process: start_monitoring and stop_monitoring are called in
\* any order while the threads they leave run their loops, stop hooks save
\* records, panes exit, time passes and panes are added to the tracker file.
InitThreads == InitWith(FALSE, {SeparateWindows}, {<<"a">>}, {FALSE})

NextThreads ==
    \/ StartMonitoring
    \/ StopMonitoring
    \/ \E t \in Threads : ThreadWhile(t)
    \/ \E t \in Threads : ThreadCleanupDeadPanes(t)
    \/ \E t \in Threads : ThreadCleanupOldStates(t)
    \/ \E t \in Threads : ThreadSleep(t)
    \/ Quiescent /\ Start(1, "stop", "%1")
    \/ ApplyStep(1)
    \/ Quiescent /\ KillPane("%1")
    \/ Quiescent /\ Elapse
    \/ Quiescent /\ AddTrackedPane("%1")

SpecThreads == InitThreads /\ [][NextThreads]_vars

\* One step of the _monitor_loop that thread t runs.
ThreadStep(t) ==
    \/ ThreadWhile(t)
    \/ ThreadCleanupDeadPanes(t)
    \/ ThreadCleanupOldStates(t)
    \/ ThreadSleep(t)

\* The tracker process with its threads scheduled: a thread that can take a
\* step of its loop takes it in the end (a sweep returns, time.sleep(30)
\* ends, the while test is made).
SpecShutdown ==
    InitThreads /\ [][NextThreads]_vars /\ \A t \in Threads : WF_vars(ThreadStep(t))

\* Overlapping invocations: two hook processes for the pane Claude runs in,
\* their calls interleaved in every order; nobody else renames the window.
InitOverlap == InitWith(FALSE, {SeparateWindows}, {<<"a">>, <<" ", "a">>}, BOOLEAN)

NextOverlap ==
    \/ \E i \in Slots, k \in {"stop", "notification", "restore"} : Start(i, k, "%1")
    \/ \E i \in Slots : ApplyStep(i)
    \/ \E i \in Slots : RestoreStep(i)

SpecOverlap == InitOverlap /\ [][NextOverlap]_vars

\* The dispatcher beside the staleness sweep: hook invocations for the pane
\* Claude runs in, one after the other and each recorded by the observer,
\* while time passes, the monitor loop makes its rounds and the user renames
\* the window.
InitStale == InitWith(TRUE, {SeparateWindows}, {<<"a">>}, {FALSE})

NextStale ==
    \/ \E k \in {"stop", "restore"} : Quiescent /\ Start(1, k, "%1")
    \/ ApplyStep(1)
    \/ RestoreStep(1)
    \/ Quiescent /\ Elapse
    \/ Quiescent /\ MonitorSleep
    \/ Quiescent /\ CleanupDeadPanes
    \/ Quiescent /\ CleanupOldStates
    \/ \E n \in RenameNames : Quiescent /\ ExternalRename("@1", n)

SpecStale == InitStale /\ [][NextStale]_vars

\* The apply handlers on a window of any name: the emoji prefix check of
\* each handler meets every name of up to MaxLen tokens.
InitStrip == InitWith(FALSE, {SeparateWindows}, NamesUpTo(MaxLen), {FALSE})

NextStrip ==
    \/ \E k \in ApplyKinds : Quiescent /\ Start(1, k, "%1")
    \/ IsWaitingForPermission(1)
    \/ ApplyStep(1)

SpecStrip == InitStrip /\ [][NextStrip]_vars

\* Racing applies: two stop or notification hook processes for the pane
\* Claude runs in, their calls interleaved in every order, and nothing else.
InitRace == InitWith(FALSE, {SeparateWindows}, {<<"a">>}, BOOLEAN)

NextRace ==
    \/ \E i \in Slots, k \in {"stop", "notification"} : Start(i, k, "%1")
    \/ \E i \in Slots : ApplyStep(i)

SpecRace == InitRace /\ [][NextRace]_vars

\* The monitor loop beside the dispatcher while tmux list-panes fails in
\* every round (CalledProcessError, e.g. no server is running for the
\* tracker process); everything else as in SpecMonitor.
NextListFails ==
    \/ \E k \in {"stop", "restore"}, p \in Panes : Quiescent /\ Start(1, k, p)
    \/ ApplyStep(1)
    \/ RestoreStep(1)
    \/ \E p \in Panes : Quiescent /\ KillPane(p)
    \/ Quiescent /\ Elapse
    \/ \E p \in Panes : Quiescent /\ AddTrackedPane(p)
    \/ \E p \in Panes : Quiescent /\ RemoveTrackedPane(p)
    \/ Quiescent /\ MonitorSleep
    \/ Quiescent /\ CleanupDeadPanesWith("fail")
    \/ Quiescent /\ CleanupOldStates

SpecListFails == InitMonitor /\ [][NextListFails]_vars

\* The three apply handlers, one invocation at a time, on two panes whose
\* windows start with the same name; every call and its answer is recorded.
InitSame ==
    InitTraced(TRUE, TRUE, {SeparateWindows}, {<<"a">>}, {<<"a">>}, {TRUE})

NextSame ==
    \/ \E k \in ApplyKinds : Quiescent /\ Start(1, k, "%1")
    \/ Quiescent /\ Start(1, "stop", "%2")
    \/ IsWaitingForPermission(1)
    \/ ApplyStep(1)

SpecSame == InitSame /\ [][NextSame]_vars

\* Two Claude sessions, one in each pane, the panes in windows of their own
\* or side by side in one window: their hook invocations overlap freely.
InitIsolation == InitWith(FALSE, Layouts, {<<"a">>}, BOOLEAN)

NextIsolation ==
    \/ \E k \in {"stop", "restore"} : Start(1, k, "%1")
    \/ \E k \in {"stop", "restore"} : Start(2, k, "%2")
    \/ \E i \in Slots : ApplyStep(i)
    \/ \E i \in Slots : RestoreStep(i)

SpecIsolation == InitIsolation /\ [][NextIsolation]_vars

\* pane_tracker.py add, remove and cleanup processes that run side by side,
\* the add and remove commands of one process for another pane than those of
\* the other.
InitTracker == InitWith(FALSE, {SeparateWindows}, {<<"a">>}, {FALSE})

NextTracker ==
    \/ \E t \in TrackerProcs : \E op \in TrackerOps(t) : LoadTrackedPanes(t, op)
    \/ \E t \in TrackerProcs : SaveAddedPane(t)
    \/ \E t \in TrackerProcs : SaveRemovedPane(t)
    \/ \E t \in TrackerProcs : SaveWithoutDeadPanes(t)

SpecTracker == InitTracker /\ [][NextTracker]_vars

\* ----------------------------------------------------------- claims
\* The name begins with one of the four emoji.
BeginsWithEmoji(name) == name # <<>> /\ name[1] \in Emojis

\* The name begins with one of the four emoji and a blank.
HasEmojiPrefix(name) == \E e \in Emojis : StartsWith(name, e)

\* The name begins with two emoji, each followed by a blank.
HasStackedEmoji(name) ==
    HasEmojiPrefix(name) /\ HasEmojiPrefix(SubSeq(name, 3, Len(name)))

\* e records an apply (a restore) that its handler logged as done.
AppliedOk(e) == e # None /\ e.kind \in ApplyKinds /\ e.result = "ok"
RestoredOk(e) == e # None /\ e.kind \in RestoreKinds /\ e.result = "ok"

\* The record of invocation e's pane, before and after e.
RecBefore(e) == e.before.store[e.pane]
RecAfter(e) == e.after.store[e.pane]

\* Invocation f ran on the pane of e right after e, nothing in between.
Follows(e, f) ==
    e # None /\ f # None /\ f.pane = e.pane /\ f.before = e.after

\* C1 (as claimed): a successful apply on a pane with no record whose name N
\* does not begin with an emoji displays emoji + " " + N, and a restore that
\* follows displays exactly N again and leaves no record.
C1_StripThenRestoreRoundTrip ==
    /\ (AppliedOk(last) /\ RecBefore(last) = None
            /\ ~BeginsWithEmoji(last.before.name))
         => last.after.name = <<EmojiOf(last.kind), " ">> \o last.before.name
    /\ (AppliedOk(prev) /\ RecBefore(prev) = None
            /\ ~BeginsWithEmoji(prev.before.name)
            /\ RestoredOk(last) /\ Follows(prev, last))
         => (last.after.name = prev.before.name /\ RecAfter(last) = None)

\* C1, for names without blanks around them: what the code does keep.
C1_RoundTripOfTrimmedNames ==
    (AppliedOk(prev) /\ RecBefore(prev) = None
        /\ ~BeginsWithEmoji(prev.before.name)
        /\ Strip(prev.before.name) = prev.before.name
        /\ RestoredOk(last) /\ Follows(prev, last))
      => /\ prev.after.name = <<EmojiOf(prev.kind), " ">> \o prev.before.name
         /\ last.after.name = prev.before.name
         /\ RecAfter(last) = None

\* C2 (as claimed, for a first name N without emoji): after two successful
\* applies in a row, the first on a pane with no record, the name is the
\* emoji of the second, a blank and N, and the stored true name is N.
C2_NoNestedMarkers ==
    (AppliedOk(prev) /\ RecBefore(prev) = None
        /\ ~BeginsWithEmoji(prev.before.name)
        /\ AppliedOk(last) /\ Follows(prev, last))
      => /\ last.after.name = <<EmojiOf(last.kind), " ">> \o prev.before.name
         /\ RecAfter(last).original_name = prev.before.name

\* C2, with the stored name in place of N: what the code does keep.
C2_SecondApplyReplacesEmoji ==
    (AppliedOk(prev) /\ AppliedOk(last) /\ Follows(prev, last))
      => /\ RecAfter(last).original_name = RecAfter(prev).original_name
         /\ last.after.name =
              <<EmojiOf(last.kind), " ">> \o RecAfter(prev).original_name

\* C4 (as claimed): of two restores in a row on a pane with a record, the
\* first deletes the record and the second changes nothing.
C4_IdempotentRestoreAlways ==
    (prev # None /\ prev.kind = "restore" /\ RecBefore(prev) # None
        /\ last # None /\ last.kind = "restore" /\ Follows(prev, last))
      => /\ RecAfter(prev) = None
         /\ last.after = last.before
         /\ last.after.name = prev.after.name

\* C4 (amended): of two restores in a row on a pane with a record, if the
\* first returned True it left the saved name displayed and no record, and
\* the second finds no state and changes neither name, option nor store.
C4_IdempotentRestore ==
    (RestoredOk(prev) /\ RecBefore(prev) # None
        /\ last # None /\ last.kind = "restore" /\ Follows(prev, last))
      => /\ prev.after.name = RecBefore(prev).original_name
         /\ RecAfter(prev) = None
         /\ last.result = "no_state"
         /\ last.after = last.before

C4_SecondRestoreRan ==
    /\ RestoredOk(prev) /\ RecBefore(prev) # None
    /\ last # None /\ last.kind = "restore" /\ Follows(prev, last)
    /\ prev.before.name # prev.after.name

\* C5: an apply whose rename-window command failed leaves every state file
\* as it was, a record saved earlier included.
C5_AccessorFailureIsolation ==
    (last # None /\ last.kind \in ApplyKinds /\ last.rename = "failed")
      => last.after.store = last.before.store

C5_FailedOverPriorRecord ==
    /\ last # None /\ last.kind \in ApplyKinds /\ last.rename = "failed"
    /\ RecBefore(last) # None

\* C6 (as claimed): the first apply of an episode stores the automatic-rename
\* value the window had before the apply, and a restore that follows sets
\* the option back to it.
C6_AutoNamingSnapshot ==
    /\ (AppliedOk(last) /\ RecBefore(last) = None)
         => RecAfter(last).auto_rename_was_on = last.before.auto
    /\ (AppliedOk(prev) /\ RecBefore(prev) = None
            /\ RestoredOk(last) /\ Follows(prev, last))
         => last.after.auto = prev.before.auto

\* C8 (as claimed): no stored true name begins with an emoji and a blank.
C8_TrueNameNeverCarriesEmoji ==
    \A p \in Panes :
        IsRecord(store[p]) => ~HasEmojiPrefix(store[p].original_name)

\* C8 (amended): the name an apply stores begins with an emoji and a blank
\* only if the record it found already did, or if it found no record and
\* the displayed name, blanks around it dropped, carried two stacked emoji.
C8_TrueNameCarriesEmojiOnlyIfStacked ==
    (AppliedOk(last) /\ HasEmojiPrefix(RecAfter(last).original_name))
      => \/ /\ RecBefore(last) # None
            /\ HasEmojiPrefix(RecBefore(last).original_name)
         \/ /\ RecBefore(last) = None
            /\ HasStackedEmoji(Strip(last.before.name))

C8_OneEmojiStripped ==
    /\ AppliedOk(last) /\ RecBefore(last) = None
    /\ HasEmojiPrefix(last.before.name)
    /\ ~HasEmojiPrefix(RecAfter(last).original_name)

\* Pane p is the only pane of its window.
Alone(p) == \A q \in Panes \ {p} : window[q] # window[p]

\* C7 (as claimed, for a pane alone in its window): while no invocation is
\* in progress and the monitor loop sleeps, a live pane has a record if and
\* only if its window shows a name that an apply handler set.
C7_RecordIffOverlay ==
    (Quiescent /\ monitor = "sleep")
      => \A p \in live :
            Alone(p) => ((store[p] # None) <=> overlayShown[window[p]])

\* C9 (as claimed): the dead-pane sweep of a round of the monitor loop
\* deletes the record of every pane that tmux no longer has; records the
\* staleness sweep of the same round deletes anyway are left aside.
C9_DeadResourceEviction ==
    [][(monitor = "cleanup_dead_panes" /\ monitor' = "cleanup_old_states")
         => \A p \in Panes \ live :
               (store[p] # None /\ ~(now - store[p].timestamp > MaxAge))
                 => store'[p] = None]_vars

\* C9, for the panes of the tracker file: what the code does delete.
C9_TrackedDeadPaneEvicted ==
    [][(monitor = "cleanup_dead_panes" /\ monitor' = "cleanup_old_states")
         => \A p \in tracked \ live : store'[p] = None]_vars

\* C10: cleanup_old_states deletes every record written more than MaxAge
\* ago, the pane live or not, and leaves every younger record as it is.
C10_StalenessEviction ==
    [][(monitor = "cleanup_old_states" /\ monitor' = "sleep")
         => \A p \in Panes :
               /\ (store[p] # None /\ now - store[p].timestamp > MaxAge)
                    => store'[p] = None
               /\ (store[p] # None /\ now - store[p].timestamp <= MaxAge)
                    => store'[p] = store[p]]_vars

\* A sweep has deleted the record of a live pane and kept a record that was
\* exactly MaxAge old.
C10_LivePaneEvictedBoundaryKept ==
    /\ monitor = "sleep"
    /\ \E p \in live : p \in evicted
    /\ \E q \in Panes : store[q] # None /\ now - store[q].timestamp >= MaxAge

\* The name is the true name, bare or behind one emoji and a blank.
ShowsTrueName(w) ==
    \/ winName[w] = trueName[w]
    \/ \E e \in Emojis : winName[w] = <<e, " ">> \o trueName[w]

\* C3 (as claimed): while applies and restores for one pane overlap, its
\* window's first name N carrying no emoji, every record holds N and the
\* window shows N, bare or behind one emoji and a blank.
C3_TrueNameNeverLost ==
    \A p \in Panes :
        ~BeginsWithEmoji(trueName[window[p]])
          => /\ IsRecord(store[p]) => store[p].original_name = trueName[window[p]]
             /\ ShowsTrueName(window[p])

\* C3, for names without blanks around them: what the code does keep.
C3_TrimmedTrueNameNeverLost ==
    \A p \in Panes :
        (~BeginsWithEmoji(trueName[window[p]])
            /\ Strip(trueName[window[p]]) = trueName[window[p]])
          => /\ IsRecord(store[p]) => store[p].original_name = trueName[window[p]]
             /\ ShowsTrueName(window[p])

\* The record invocation e found was text or bytes json.load cannot parse.
FoundUnparsable(e) ==
    /\ e # None /\ IsDamaged(RecBefore(e))
    /\ RecBefore(e).damaged \in {"truncated", "undecodable"}

\* C11 (as claimed): an invocation that finds a record that does not parse
\* gets no exception from load_pane_state; an apply stores the displayed
\* name less its emoji, as for a pane with no record, and a restore changes
\* nothing.
C11_CorruptRecordSafety ==
    FoundUnparsable(last)
      => /\ last.result # "load_error"
         /\ last.kind \in RestoreKinds => last.after = last.before
         /\ AppliedOk(last)
              => RecAfter(last).original_name
                   = RemoveEmojiPrefix(Strip(last.before.name))

\* C11, for text that json.load rejects: what the code does keep.
C11_RejectedJsonIsAbsent ==
    (FoundUnparsable(last) /\ RecBefore(last).damaged = "truncated")
      => /\ last.result # "load_error"
         /\ last.kind \in RestoreKinds => last.after = last.before
         /\ AppliedOk(last)
              => RecAfter(last).original_name
                   = RemoveEmojiPrefix(Strip(last.before.name))

\* C12 (as claimed): no invocation ends in an exception that main() raises.
C12_ExitsCleanly == last # None => last.result \notin Uncaught

\* C18: a restore or clear_emoji_on_enter on a pane whose state file is
\* missing or holds no record leaves the window name, the automatic-rename
\* option and every state file as they were.
C18_RestoreWithoutRecordIsNoOp ==
    (last # None /\ last.kind \in RestoreKinds /\ ~IsRecord(RecBefore(last)))
      => last.after = last.before

\* A restore found a file json.load rejects while the window showed an emoji.
C18_RestoreOverUnreadableRecord ==
    /\ last # None /\ last.kind = "restore" /\ last.result = "no_state"
    /\ IsDamaged(RecBefore(last))
    /\ HasEmojiPrefix(last.before.name)

\* C13 (as claimed): whenever an invocation loads the state file of its
\* pane, the file holds a whole record or does not exist; it is never the
\* empty file a save_pane_state of another invocation is about to fill.
C13_AtomicRecordWrites ==
    [][\A i \in Slots :
          (pc[i] = "load_pane_state" /\ pc'[i] # "load_pane_state")
            => ~IsDamaged(store[pane[i]])]_vars

\* C17 (as claimed): an apply whose rename-window command failed leaves the
\* window name, the automatic-rename option and every state file as they
\* were before it.
C17_FailedSetNameMutatesNothing ==
    (last # None /\ last.kind \in ApplyKinds /\ last.rename = "failed")
      => last.after = last.before

\* C19 (as claimed): a successful apply on a pane that has a record keeps
\* the stored true name and the stored automatic-rename snapshot.
C19_ReapplyKeepsNameAndSnapshot ==
    (AppliedOk(last) /\ RecBefore(last) # None)
      => /\ RecAfter(last).original_name = RecBefore(last).original_name
         /\ RecAfter(last).auto_rename_was_on = RecBefore(last).auto_rename_was_on

\* C19, the true name alone: what the code does keep.
C19_ReapplyKeepsName ==
    (AppliedOk(last) /\ RecBefore(last) # None)
      => RecAfter(last).original_name = RecBefore(last).original_name

\* C20: a pretooluse invocation whose permission check says no changes
\* neither name, option nor state file; one whose check says yes and whose
\* handler succeeds leaves what a successful apply leaves: the permission
\* emoji before the stored name, status 'permission', the name stored that
\* the record held before or, without one, the displayed name less its emoji.
C20_PreToolUseOnlyWhenWaiting ==
    /\ (last # None /\ last.kind = "pretooluse" /\ last.result = "skipped")
         => last.after = last.before
    /\ (AppliedOk(last) /\ last.kind = "pretooluse")
         => /\ RecAfter(last).status = "permission"
            /\ last.after.name
                 = <<EmojiPermission, " ">> \o RecAfter(last).original_name
            /\ RecAfter(last).original_name
                 = OriginalName(RecBefore(last), Strip(last.before.name))

\* A pretooluse invocation was skipped on a pane that shows an overlay and
\* has a record.
C20_SkippedOverOverlay ==
    /\ last # None /\ last.kind = "pretooluse" /\ last.result = "skipped"
    /\ RecBefore(last) # None /\ HasEmojiPrefix(last.before.name)

\* C16 (as claimed): every invocation that has started ends, also when a
\* tmux command it runs never answers.
C16_InvocationTerminates ==
    \A i \in Slots : (pc[i] # "idle") ~> (pc[i] = "idle")

\* Thread t is inside a round of sweeps.
InTick(t) == thread[t] \in {"cleanup_dead_panes", "cleanup_old_states"}

\* C14 (as claimed): whatever start_monitoring and stop_monitoring calls
\* were made, no two threads are inside a round of sweeps at the same time.
C14_NeverOverlaps ==
    \A t, u \in Threads : (InTick(t) /\ InTick(u)) => t = u

\* C15 (as claimed): a thread leaves its loop only when it finds
\* self.running false, and it begins a round only as its first or after a
\* time.sleep(30), also after a round that ended in an exception.
C15_ErrorRetriesAfterInterval ==
    [][\A t \in Threads :
          /\ thread'[t] = "done" => (thread[t] = "done" \/ ~running)
          /\ (thread[t] # "while" /\ thread'[t] = "while")
               => thread[t] \in {"unstarted", "sleep"}]_vars

\* C15, the loop going on alone: what the code does keep.
C15_ErrorKeepsLoopRunning ==
    [][\A t \in Threads :
          thread'[t] = "done" => (thread[t] = "done" \/ ~running)]_vars

\* C21: a pane whose record the staleness sweep deleted is handled as a pane
\* that never had one: a restore changes neither name, option nor state
\* file, so an emoji that was displayed stays, and a successful apply stores
\* as true name the name displayed when it ran, blanks around it and one
\* leading emoji dropped, and displays its emoji before that.
C21_EvictedPaneTreatedAsClean ==
    /\ (last # None /\ last.kind \in RestoreKinds /\ RecBefore(last) = None)
         => last.after = last.before
    /\ (AppliedOk(last) /\ RecBefore(last) = None)
         => /\ RecAfter(last).original_name
                 = RemoveEmojiPrefix(Strip(last.before.name))
            /\ last.after.name
                 = <<EmojiOf(last.kind), " ">> \o RecAfter(last).original_name

\* The staleness sweep deleted the record of the live pane while its window
\* showed an emoji; a restore then found no state and left the emoji, and the
\* apply that followed stored the displayed name less its emoji.
C21_ApplyAfterStalenessEviction ==
    /\ "%1" \in evicted /\ "%1" \in live
    /\ prev # None /\ prev.kind = "restore" /\ prev.result = "no_state"
    /\ HasEmojiPrefix(prev.before.name) /\ prev.after.name = prev.before.name
    /\ AppliedOk(last) /\ Follows(prev, last)
    /\ store["%1"] = RecAfter(last)

\* Every thread that was started has left its loop.
AllLoopsExited == \A t \in Threads : thread[t] \in {"unstarted", "done"}

Statuses == {StatusOf(k) : k \in ApplyKinds}

\* C23: every record in the store carries one of the three status strings;
\* a successful apply leaves the status of its own handler in the record of
\* its pane, and every other invocation leaves that record as it was or
\* deletes it.
C23_StatusOfLastApply ==
    /\ \A p \in Panes : IsRecord(store[p]) => store[p].status \in Statuses
    /\ AppliedOk(last) => RecAfter(last).status = StatusOf(last.kind)
    /\ (last # None /\ ~AppliedOk(last))
         => (RecAfter(last) = RecBefore(last) \/ RecAfter(last) = None)

\* A successful apply found the record of an apply with another status and
\* left its own.
C23_StatusReplaced ==
    /\ AppliedOk(prev) /\ AppliedOk(last) /\ Follows(prev, last)
    /\ prev.kind # last.kind
    /\ RecBefore(last).status = StatusOf(prev.kind)
    /\ store[last.pane].status = StatusOf(last.kind)

\* C24 (as claimed): an apply writes the record before it renames the
\* window, so whenever an apply invocation has renamed the window the state
\* file of its pane holds a record.
C24_RecordWrittenBeforeRename ==
    \A i \in Slots :
        (kind[i] \in ApplyKinds /\ rename_result[i] = "ok")
          => IsRecord(store[pane[i]])

\* Slot i is an apply that found no state and has renamed the window.
RenamedWithoutState(i) ==
    /\ kind[i] \in ApplyKinds /\ rename_result[i] = "ok" /\ state[i] = None

\* C25: on a pane with no record the handler's prefix check turns
\* current_name into the name it displays behind its own emoji: when
\* current_name begins with one of the four emoji and a blank, exactly these
\* two tokens are gone, whatever follows them, another emoji and blank
\* included; otherwise nothing is gone.
C25_StripIsTotalAndSingle ==
    \A i \in Slots :
        RenamedWithoutState(i)
          => LET shown == winName[window[pane[i]]]
                 original_name == SubSeq(shown, 3, Len(shown))
             IN  /\ shown = <<EmojiOf(kind[i]), " ">> \o original_name
                 /\ IF \E e \in Emojis : StartsWith(current_name[i], e)
                    THEN \E e \in Emojis :
                            current_name[i] = <<e, " ">> \o original_name
                    ELSE original_name = current_name[i]

\* The prefix check met a name with two stacked emoji and removed the first.
C25_StackedNameStrippedOnce ==
    \E i \in Slots :
        /\ RenamedWithoutState(i)
        /\ HasStackedEmoji(current_name[i])
        /\ winName[window[pane[i]]]
             = <<EmojiOf(kind[i]), " ">> \o SubSeq(current_name[i], 3, Len(current_name[i]))

\* The emoji that stands for a stored status.
MarkerOf(status) ==
    CASE status = "stop" -> EmojiStop
      [] status = "notification" -> EmojiNotification
      [] status = "permission" -> EmojiPermission

\* C26: after a successful apply that ran alone, the window name is the
\* emoji of the status in the record it wrote, one blank, and the true name
\* in that record.
C26_DisplayedIsMarkerAndTrueName ==
    AppliedOk(last)
      => /\ IsRecord(RecAfter(last))
         /\ last.after.name
              = <<MarkerOf(RecAfter(last).status), " ">> \o RecAfter(last).original_name

\* A successful apply replaced the emoji of an earlier apply by its own.
C26_MarkerReplaced ==
    /\ AppliedOk(last) /\ IsRecord(RecBefore(last))
    /\ HasEmojiPrefix(last.before.name)
    /\ last.before.name[1] # last.after.name[1]
    /\ winName[window[last.pane]] = last.after.name

\* C27: an apply that ends because it got no pane id, or because
\* get_pane_name failed or returned an empty name, leaves the window name,
\* the automatic-rename option and every state file as they were.
C27_AbandonedBeforeMutation ==
    (last # None /\ last.kind \in ApplyKinds
        /\ last.result \in {"no_pane_id", "no_name"})
      => last.after = last.before

\* An apply got no name for a pane that had a record and automatic rename on.
C27_NoNameOverRecord ==
    /\ last # None /\ last.kind \in ApplyKinds /\ last.result = "no_name"
    /\ IsRecord(RecBefore(last)) /\ last.before.auto

\* C28 (as claimed): once overlapping applies on one pane have all ended,
\* the emoji the window shows is the emoji of the status in the pane's
\* record.
C28_MarkerMatchesStoredStatus ==
    \A p \in Panes :
        (Quiescent /\ IsRecord(store[p]))
          => /\ HasEmojiPrefix(winName[window[p]])
             /\ winName[window[p]][1] = MarkerOf(store[p].status)

\* C28, without the agreement: what the code does keep is a record with
\* the true name and an emoji before that name.
C28_RaceKeepsNameAndSomeMarker ==
    \A p \in Panes :
        (Quiescent /\ IsRecord(store[p]))
          => \E e \in {EmojiStop, EmojiNotification} :
                winName[window[p]] = <<e, " ">> \o store[p].original_name

\* C29 (as claimed): once an apply and a restore that overlapped on a pane
\* have both ended, the pane has a record if and only if its window shows
\* an emoji before the name.
C29_RecordIffMarkerAfterRace ==
    \A p \in Panes :
        Quiescent
          => (IsRecord(store[p]) <=> HasEmojiPrefix(winName[window[p]]))

\* C29, the half a later restore depends on: a window that shows an emoji
\* has a record to restore from.  The code does not keep it either.
C29_MarkerHasRecordAfterRace ==
    \A p \in Panes :
        (Quiescent /\ HasEmojiPrefix(winName[window[p]])) => IsRecord(store[p])

\* C30 (as claimed): no step of a round of the monitor loop deletes or
\* changes the record of a pane tmux still has, unless the record is older
\* than MaxAge.
C30_LiveRecordSurvivesTick ==
    [][(monitor \in {"cleanup_dead_panes", "cleanup_old_states"}
          /\ monitor' # monitor)
         => \A p \in live :
               (IsRecord(store[p]) /\ ~IsOld(store[p].timestamp))
                 => store'[p] = store[p]]_vars

\* C30, for the panes that are not in the tracker file: what the code does
\* keep.
C30_UntrackedLiveRecordSurvivesTick ==
    [][(monitor \in {"cleanup_dead_panes", "cleanup_old_states"}
          /\ monitor' # monitor)
         => \A p \in live \ tracked :
               (IsRecord(store[p]) /\ ~IsOld(store[p].timestamp))
                 => store'[p] = store[p]]_vars

\* C31 (as claimed): the dead-pane sweep of a round whose list-panes
\* command failed deletes no state file and no entry of the tracker file.
C31_FailedEnumerationDeletesNothing ==
    [][(monitor = "cleanup_dead_panes" /\ monitor' = "cleanup_old_states")
         => (store' = store /\ tracked' = tracked)]_vars

\* C31, for the panes that are not in the tracker file: what the code does
\* keep.
C31_FailedEnumerationKeepsUntracked ==
    [][(monitor = "cleanup_dead_panes" /\ monitor' = "cleanup_old_states")
         => \A p \in Panes \ tracked : store'[p] = store[p]]_vars

\* e records a restore whose rename-window command failed.
RestoreFailed(e) ==
    e # None /\ e.kind \in RestoreKinds /\ e.result = "restore_failed"

\* C32: a restore whose rename-window command fails leaves the state file,
\* the window name and the automatic-rename option as they were, a restore
\* that follows it displays the stored original name, and a restore removes
\* the state file only with the window showing the stored original name.
C32_FailedRestoreKeepsRecord ==
    /\ RestoreFailed(last) => last.after = last.before
    /\ (RestoreFailed(prev) /\ RestoredOk(last) /\ Follows(prev, last))
         => (/\ IsRecord(RecBefore(prev))
             /\ last.after.name = RecBefore(prev).original_name
             /\ RecAfter(last) = None)
    /\ (last # None /\ last.kind \in RestoreKinds
            /\ IsRecord(RecBefore(last)) /\ RecAfter(last) = None)
         => last.after.name = RecBefore(last).original_name

\* C32 witness: a restore failed at its rename-window command over a state
\* file, and the restore after it displayed the stored name and removed the
\* file.
C32_RestoreAfterFailedRestore ==
    /\ RestoreFailed(prev) /\ IsRecord(RecBefore(prev))
    /\ prev.before.name # RecBefore(prev).original_name
    /\ RestoredOk(last) /\ Follows(prev, last)
    /\ last.after.name = RecBefore(prev).original_name
    /\ RecAfter(last) = None

\* The calls of apply invocation e from get_claude_pane_id on.
ApplyCalls(e) == IF e.kind = "pretooluse" THEN Tail(e.calls) ELSE e.calls

\* Invocations e and f found the same window name, automatic-rename option
\* and state file.
SameInput(e, f) ==
    /\ e.before.name = f.before.name
    /\ e.before.auto = f.before.auto
    /\ RecBefore(e) = RecBefore(f)

\* Call sequences c and d got the same answers as far as both go.
SameAnswers(c, d) ==
    \A n \in (DOMAIN c) \cap (DOMAIN d) : Tail(c[n]) = Tail(d[n])

\* A state file's content without its status.
Unmarked(rec) == IF IsRecord(rec) THEN [rec EXCEPT !.status = "any"] ELSE rec

\* Apply invocations e and f acted alike, apart from emoji and status.
SameTransition(e, f) ==
    /\ ApplyCalls(e) = ApplyCalls(f)
    /\ e.result = f.result
    /\ e.rename = f.rename
    /\ e.after.auto = f.after.auto
    /\ Unmarked(RecAfter(e)) = Unmarked(RecAfter(f))
    /\ IF e.rename = "ok"
       THEN LET original_name == SubSeq(e.after.name, 3, Len(e.after.name))
            IN  /\ e.after.name = <<EmojiOf(e.kind), " ">> \o original_name
                /\ f.after.name = <<EmojiOf(f.kind), " ">> \o original_name
       ELSE e.after.name = e.before.name /\ f.after.name = f.before.name
    /\ e.result = "ok"
         => \A g \in {e, f} :
               IsRecord(RecAfter(g)) => RecAfter(g).status = StatusOf(g.kind)

\* e records an apply handler that got past the permission test.
Applied(e) == e # None /\ e.kind \in ApplyKinds /\ e.result # "skipped"

Calls(i) == pc[i] # "idle" /\ pc'[i] # pc[i]

\* C34 (as claimed): no call of an invocation for one pane changes the window
\* name, the automatic-rename option or the state file of another pane.
C34_OtherPaneUntouched ==
    [][\A i \in Slots : Calls(i) =>
          \A q \in Panes \ {pane[i]} :
             /\ winName'[window[q]] = winName[window[q]]
             /\ autoRename'[window[q]] = autoRename[window[q]]
             /\ store'[q] = store[q]]_vars

\* C34, for the state files and for panes in different windows: what the
\* code does keep.
C34_OtherWindowUntouched ==
    [][\A i \in Slots : Calls(i) =>
          \A q \in Panes \ {pane[i]} :
             /\ store'[q] = store[q]
             /\ window[q] # window[pane[i]]
                  => /\ winName'[window[q]] = winName[window[q]]
                     /\ autoRename'[window[q]] = autoRename[window[q]]]_vars

\* No tracker process stands between its load and its save.
TrackerQuiet == \A t \in TrackerProcs : tracker[t].pc = "idle"

\* C35 (as claimed): once the add, remove and cleanup processes have ended,
\* every pane that was added and since then neither removed nor found dead
\* is a key of the tracker file.
C35_NoTrackedPaneLost == TrackerQuiet => expected \subseteq tracked

\* C35, for the pane of the process that saves: what the code does keep.
C35_OwnPaneTrackedAtSave ==
    [][\A t \in TrackerProcs :
          (tracker[t].op = "add_tracked_pane" /\ tracker'[t].pc = "idle")
            => tracker[t].pane_id \in tracked']_vars
====
